---- MODULE Spec2Model ----
(***************************************************************************)
(* Model of src/src/pic.rs: the i8259A chip (struct I8259A), the cascade   *)
(* of two chips (struct PIC) and the device front end (struct PICDev).     *)
(* Registers are u8 values kept as integers in 0..255; the bitwise          *)
(* operators of the source are computed bit by bit.                        *)
(***************************************************************************)
EXTENDS Integers, Sequences, FiniteSets

VARIABLES
    dev,              \* a stand-alone I8259A, driven directly (i8259a_test)
    pic,              \* the PIC owned by PICDev: [master, slave]
    prev,             \* [dev, pic] as they were before the last operation
    op,               \* the last operation and its arguments
    reqs,             \* the calls into vm:: made by the last operation, in order
    ret,              \* the value the last operation returned (NoRet if none)
    panicked,         \* a failed assert! / panic!() has aborted the program
    overflow_checks,  \* the build: TRUE = debug (checked u8 arithmetic), FALSE = release
    steps,            \* the number of calls made into PICDev so far
    pending           \* vm::'s external interrupts raised by PICDev and not yet delivered

vars == <<dev, pic, prev, op, reqs, ret, panicked, overflow_checks, steps, pending>>

--------------------------------------------------------------------------
(* Program constants *)

PIC_MASTER_CMD == 32
PIC_MASTER_DATA == 33
PIC_SLAVE_CMD == 160
PIC_SLAVE_DATA == 161

ICW1_INIT == 16
ICW1_ICW4 == 1
ICW4_8086 == 1

PIC_READ_IRR == 10
PIC_READ_ISR == 11
PIC_EOI == 32

U8Bits == 8
U8Mod == 256

--------------------------------------------------------------------------
(* u8 arithmetic *)

Byte == 0 .. (U8Mod - 1)

Pow2(n) == 2 ^ n

\* bit i of x, as 0 or 1
BitAt(x, i) == (x \div Pow2(i)) % 2

\* x & y on u8
BitAnd(x, y) ==
    LET b(i) == IF BitAt(x, i) = 1 /\ BitAt(y, i) = 1 THEN Pow2(i) ELSE 0
    IN b(0) + b(1) + b(2) + b(3) + b(4) + b(5) + b(6) + b(7)

\* x | y on u8
BitOr(x, y) ==
    LET b(i) == IF BitAt(x, i) = 1 \/ BitAt(y, i) = 1 THEN Pow2(i) ELSE 0
    IN b(0) + b(1) + b(2) + b(3) + b(4) + b(5) + b(6) + b(7)

\* !x on u8
BitNot(x) == (U8Mod - 1) - x

\* x >> 1 on u8
Shr1(x) == x \div 2

\* The set of bit indexes set in x
Bits(x) == { i \in 0 .. (U8Bits - 1) : BitAt(x, i) = 1 }

--------------------------------------------------------------------------
(* The host interface vm:: the chip calls into *)

raise_external_interrupt(v) == [call |-> "raise_external_interrupt", vector |-> v]
cancel_all_external_interrupts == [call |-> "cancel_all_external_interrupts", vector |-> 0]

NoRet == -1

\* vm:: keeps the vectors raised and not yet delivered, each with the chip that
\* raised it: pend after the calls of out, who[k] being the chip that made
\* out[k]. A cancellation drops what was raised before it.
vm_after(pend, out, who) ==
    LET cancels == { k \in 1 .. Len(out) : out[k] = cancel_all_external_interrupts }
        raises == { k \in 1 .. Len(out) : \A j \in cancels : j < k } \ cancels
    IN (IF cancels = {} THEN pend ELSE {})
           \cup { [vector |-> out[k].vector, chip |-> who[k]] : k \in raises }

\* vm:: once it has delivered vector vec to the guest
vm_delivered(pend, vec) == { r \in pend : r.vector # vec }

\* What a method leaves behind: the chip, the vm:: calls it made, the value it
\* returned, and whether it panicked (the chip is then as the panic found it).
Outcome(c, out, r, p) == [chip |-> c, out |-> out, ret |-> r, panic |-> p]

\* 1_u8 << n: a shift by 8 or more panics in a checked build and is taken
\* modulo the width in an unchecked one.
ShlOverflows(n) == n >= U8Bits
Shl1(n) == Pow2(n % U8Bits)

\* a + b on u8: panics in a checked build, wraps in an unchecked one.
AddOverflows(a, b) == a + b >= U8Mod
WrappingAdd(a, b) == (a + b) % U8Mod

--------------------------------------------------------------------------
(* struct I8259A *)

I8259A_default ==
    [irr |-> 0, isr |-> 0, imr |-> 0, offset |-> 0, icw3 |-> 0,
     next_icw |-> 0, cmd_latch |-> 0]

\* Mutant: any started initialization counts as complete
is_initialized_started(c) == c.next_icw # 0

is_initialized(c) == c.next_icw = 1

slave_irq(c) == c.icw3


\* Mutant: the mask register is tested against the line number, not its bit
masked_by_number(c, irq) == BitAnd(c.imr, irq) # 0

\* lines 67-68: the line's bit is set in the mask register
masked(c, irq) == BitAnd(c.imr, Shl1(irq)) # 0

\* line 78: the vector of a line, irq + self.offset on u8
vector_of(c, irq) == WrappingAdd(irq, c.offset)

(* Assert an IRQ line *)
I8259A_assert_irq(c, irq) ==
    IF ~(irq < 8) THEN Outcome(c, <<>>, NoRet, TRUE)
    ELSE IF ~is_initialized(c) THEN Outcome(c, <<>>, NoRet, FALSE)
    ELSE IF masked(c, irq) THEN Outcome(c, <<>>, NoRet, FALSE)
    ELSE LET c1 == [c EXCEPT !.irr = BitOr(c.irr, Shl1(irq))] IN
         IF AddOverflows(irq, c.offset) /\ overflow_checks
         THEN Outcome(c1, <<>>, NoRet, TRUE)
         ELSE Outcome(c1, <<raise_external_interrupt(vector_of(c, irq))>>, NoRet, FALSE)

\* Mutant: the bit is set in ISR and left in IRR
move_to_isr_keeps_irr(c, bit) == [c EXCEPT !.isr = BitOr(c.isr, bit)]

\* lines 89-91: move the bit from IRR to ISR
move_to_isr(c, bit) ==
    [c EXCEPT !.isr = BitOr(c.isr, bit), !.irr = BitAnd(c.irr, BitNot(bit))]

(* Acknowledge interrupt delivery to guest *)
I8259A_ack(c, vec) ==
    IF ~(vec >= c.offset) THEN Outcome(c, <<>>, NoRet, TRUE)
    ELSE LET irq == vec - c.offset IN
         IF ShlOverflows(irq) /\ overflow_checks THEN Outcome(c, <<>>, NoRet, TRUE)
         ELSE IF BitAnd(c.irr, Shl1(irq)) = 0 THEN Outcome(c, <<>>, NoRet, TRUE)
         ELSE Outcome(move_to_isr(c, Shl1(irq)), <<>>, NoRet, FALSE)

\* lines 128-133: the position of the lowest set bit of a non-zero isr
RECURSIVE bsf(_, _)
bsf(isr, pos) == IF BitAnd(isr, 1) = 0 THEN bsf(Shr1(isr), pos + 1) ELSE pos

\* Mutant: end of interrupt clears every line in service
eoi_clears_all(c) == [c EXCEPT !.isr = 0]

\* lines 126-136: non-specific end of interrupt
eoi(c) ==
    IF c.isr # 0
    THEN [c EXCEPT !.isr = BitAnd(c.isr, BitNot(Shl1(bsf(c.isr, 0))))]
    ELSE c

\* Mutant: the initialization command is accepted only with the ICW4 bit
icw1_needs_icw4(cmd) == cmd = BitOr(ICW1_INIT, ICW1_ICW4)

\* Mutant: the initialization command is accepted with any other bits set
icw1_any_bits(cmd) == TRUE

\* line 99: the only ICW1 bits supported
icw1_supported(cmd) == BitAnd(cmd, BitNot(BitOr(ICW1_INIT, ICW1_ICW4))) = 0

\* Mutant: the initialization command resets the request register as well
start_init_clears_irr(c) ==
    Outcome([c EXCEPT !.next_icw = 2, !.imr = 0, !.irr = 0],
            IF c.irr # 0 THEN <<cancel_all_external_interrupts>> ELSE <<>>,
            NoRet, FALSE)

\* Mutant: the initialization command skips the offset word
start_init_skips_offset(c) ==
    Outcome([c EXCEPT !.next_icw = 3, !.imr = 0],
            IF c.irr # 0 THEN <<cancel_all_external_interrupts>> ELSE <<>>,
            NoRet, FALSE)

\* lines 100-116: start of the initialization sequence
start_init(c) ==
    Outcome([c EXCEPT !.next_icw = 2, !.imr = 0],
            IF c.irr # 0 THEN <<cancel_all_external_interrupts>> ELSE <<>>,
            NoRet, FALSE)

(* Write to command port *)
I8259A_write_command(c, cmd) ==
    IF BitAnd(cmd, ICW1_INIT) # 0 THEN
        IF ~icw1_supported(cmd) THEN Outcome(c, <<>>, NoRet, TRUE)
        ELSE start_init(c)
    ELSE IF cmd = PIC_READ_IRR THEN Outcome([c EXCEPT !.cmd_latch = c.irr], <<>>, NoRet, FALSE)
    ELSE IF cmd = PIC_READ_ISR THEN Outcome([c EXCEPT !.cmd_latch = c.isr], <<>>, NoRet, FALSE)
    ELSE IF cmd = PIC_EOI THEN Outcome(eoi(c), <<>>, NoRet, FALSE)
    ELSE Outcome(c, <<>>, NoRet, FALSE)

(* Read from command port *)
I8259A_read_command(c) == Outcome(c, <<>>, c.cmd_latch, FALSE)

\* Mutant: the data port reads the status latch
I8259A_read_data_latch(c) == Outcome(c, <<>>, c.cmd_latch, FALSE)

(* Read from data port *)
I8259A_read_data(c) == Outcome(c, <<>>, c.imr, FALSE)

\* lines 171-175: re-inject the lines pending in IRR, from line i upwards. The
\* result is the calls made and whether i + self.offset panicked on the way.
RECURSIVE reinject(_, _)
reinject(c, i) ==
    IF i = 8 THEN [out |-> <<>>, panic |-> FALSE]
    ELSE IF BitAnd(c.irr, Shl1(i)) # 0
    THEN IF AddOverflows(i, c.offset) /\ overflow_checks
         THEN [out |-> <<>>, panic |-> TRUE]
         ELSE LET rest == reinject(c, i + 1) IN
              [out |-> <<raise_external_interrupt(vector_of(c, i))>> \o rest.out,
               panic |-> rest.panic]
    ELSE reinject(c, i + 1)

\* Mutant: the cascade word completes the sequence, no mode word is awaited
I8259A_write_data_skips_mode(c, data) ==
    IF c.next_icw = 2 THEN
        Outcome([c EXCEPT !.offset = data, !.next_icw = 3], <<>>, NoRet, FALSE)
    ELSE IF c.next_icw = 3 THEN
        LET c1 == [c EXCEPT !.icw3 = data, !.next_icw = 1]
            r == reinject(c1, 0)
        IN Outcome(c1, r.out, NoRet, r.panic)
    ELSE Outcome([c EXCEPT !.imr = data], <<>>, NoRet, FALSE)

(* Write to data port *)
I8259A_write_data(c, data) ==
    IF c.next_icw = 2 THEN
        Outcome([c EXCEPT !.offset = data, !.next_icw = 3], <<>>, NoRet, FALSE)
    ELSE IF c.next_icw = 3 THEN
        Outcome([c EXCEPT !.icw3 = data, !.next_icw = 4], <<>>, NoRet, FALSE)
    ELSE IF c.next_icw = 4 THEN
        IF data # ICW4_8086 THEN Outcome(c, <<>>, NoRet, TRUE)
        ELSE LET c1 == [c EXCEPT !.next_icw = 1]
                 r == reinject(c1, 0)
             IN Outcome(c1, r.out, NoRet, r.panic)
    ELSE Outcome([c EXCEPT !.imr = data], <<>>, NoRet, FALSE)

--------------------------------------------------------------------------
(* struct PIC *)

PIC_new == [master |-> I8259A_default, slave |-> I8259A_default]

\* What a PIC method leaves behind
PicOutcome(p, out, r, pn) == [pic |-> p, out |-> out, ret |-> r, panic |-> pn]

PIC_assert_irq(p, irq) ==
    IF ~(irq <= 15) THEN PicOutcome(p, <<>>, NoRet, TRUE)
    ELSE IF irq < 8 THEN
        LET m == I8259A_assert_irq(p.master, irq) IN
        PicOutcome([p EXCEPT !.master = m.chip], m.out, NoRet, m.panic)
    ELSE
        LET m == I8259A_assert_irq(p.master, slave_irq(p.master)) IN
        IF m.panic THEN PicOutcome([p EXCEPT !.master = m.chip], m.out, NoRet, TRUE)
        ELSE LET s == I8259A_assert_irq(p.slave, irq - 8) IN
             PicOutcome([p EXCEPT !.master = m.chip, !.slave = s.chip],
                        m.out \o s.out, NoRet, s.panic)

\* Mutant: the vector is compared with the master's offset
routes_to_slave_by_master(p, vec) == vec >= p.master.offset

\* line 217: the vector belongs to the slave
routes_to_slave(p, vec) == vec >= p.slave.offset

PIC_ack(p, vec) ==
    IF routes_to_slave(p, vec) THEN
        LET s == I8259A_ack(p.slave, vec) IN
        PicOutcome([p EXCEPT !.slave = s.chip], s.out, NoRet, s.panic)
    ELSE
        LET m == I8259A_ack(p.master, vec) IN
        PicOutcome([p EXCEPT !.master = m.chip], m.out, NoRet, m.panic)

--------------------------------------------------------------------------
(* struct PICDev: vm::io_handler and vm::interrupt_controller *)

PICDev_io_read(p, port, size) ==
    IF size # 1 THEN PicOutcome(p, <<>>, NoRet, TRUE)
    ELSE IF port = PIC_MASTER_DATA THEN
        LET o == I8259A_read_data(p.master) IN
        PicOutcome([p EXCEPT !.master = o.chip], o.out, o.ret, o.panic)
    ELSE IF port = PIC_MASTER_CMD THEN
        LET o == I8259A_read_command(p.master) IN
        PicOutcome([p EXCEPT !.master = o.chip], o.out, o.ret, o.panic)
    ELSE IF port = PIC_SLAVE_DATA THEN
        LET o == I8259A_read_data(p.slave) IN
        PicOutcome([p EXCEPT !.slave = o.chip], o.out, o.ret, o.panic)
    ELSE IF port = PIC_SLAVE_CMD THEN
        LET o == I8259A_read_command(p.slave) IN
        PicOutcome([p EXCEPT !.slave = o.chip], o.out, o.ret, o.panic)
    ELSE PicOutcome(p, <<>>, 0, FALSE)

PICDev_io_write(p, port, data8) ==
    IF port = PIC_MASTER_DATA THEN
        LET o == I8259A_write_data(p.master, data8) IN
        PicOutcome([p EXCEPT !.master = o.chip], o.out, o.ret, o.panic)
    ELSE IF port = PIC_MASTER_CMD THEN
        LET o == I8259A_write_command(p.master, data8) IN
        PicOutcome([p EXCEPT !.master = o.chip], o.out, o.ret, o.panic)
    ELSE IF port = PIC_SLAVE_DATA THEN
        LET o == I8259A_write_data(p.slave, data8) IN
        PicOutcome([p EXCEPT !.slave = o.chip], o.out, o.ret, o.panic)
    ELSE IF port = PIC_SLAVE_CMD THEN
        LET o == I8259A_write_command(p.slave, data8) IN
        PicOutcome([p EXCEPT !.slave = o.chip], o.out, o.ret, o.panic)
    ELSE PicOutcome(p, <<>>, NoRet, TRUE)

PICDev_assert_irq(p, irq) == PIC_assert_irq(p, irq)

PICDev_ack(p, vec) == PIC_ack(p, vec)

--------------------------------------------------------------------------
(* Inputs *)

Ports == { PIC_MASTER_CMD, PIC_MASTER_DATA, PIC_SLAVE_CMD, PIC_SLAVE_DATA }

\* Lines the devices assert on a single chip
ChipLines == { 1, 3 }

\* Bytes the guest writes to the data port of a single chip, the first NumData of:
\* the mode word, an offset, an offset near the top of the vector range, a mask,
\* a cascade line, and more masks
DataSeq == << 1, 8, 254, 171, 2, 4, 16, 128 >>
NumData == 5
DataBytes == { DataSeq[i] : i \in 1 .. NumData }

\* Bytes the guest writes to a command port: ICW1 with and without ICW4, ICW1
\* with an unsupported bit, the status reads, EOI and an unknown command
Commands == { 17, 16, 19, PIC_READ_IRR, PIC_READ_ISR, PIC_EOI, 64 }

\* Vectors the host acknowledges, relative to a chip's base vector: one below
\* it, those of the lines asserted, and one more than a chip's width above it
AckDeltas == { -1, 9 } \cup ChipLines
AckVectors(c) == { c.offset + d : d \in AckDeltas } \cap Byte

\* Calls into PICDev per run
MaxSteps == 5

\* Lines the devices assert on the PIC: one of the master, one of the slave
PicLines == { 3, 10 }

\* How the guest's firmware has left a chip: untouched, or programmed with an
\* offset and a cascade word
Untouched == << >>
MasterSetups == { Untouched } \cup ({ 8, 112, 254 } \X { 2 })
SlaveSetups == { Untouched } \cup ({ 8, 112, 254 } \X { 2 })

\* Bytes the guest writes to the data ports of the PIC: the mode word, the masks
\* of lines 2 and 3 (8 is also an offset, and no line when a cascade word)
PicDataBytes == { 1, 4, 8 }

\* Bytes the guest writes to the command ports of the PIC
PicCommands == { 17, PIC_READ_IRR, PIC_EOI }

\* Vectors the host acknowledges on the PIC
PicAckVectors(p) ==
    { c.offset + d : c \in { p.master, p.slave }, d \in { 2, 3 } } \cap Byte

--------------------------------------------------------------------------
(* The state machine *)

Snapshot == [dev |-> dev, pic |-> pic]

Op(call, port, arg) == [call |-> call, port |-> port, arg |-> arg]

\* No call is in progress
Idle == Op("idle", 0, 0)

\* A stand-alone chip as constructed; PICDev as pic::init() constructs it
InitChip ==
    /\ dev = I8259A_default
    /\ pic = PIC_new
    /\ prev = [dev |-> I8259A_default, pic |-> PIC_new]
    /\ op = Idle
    /\ reqs = <<>>
    /\ ret = NoRet
    /\ panicked = FALSE
    /\ overflow_checks \in BOOLEAN
    /\ steps = 0
    /\ pending = {}

\* One call of a method of the stand-alone chip
DevCall(o, call, arg) ==
    /\ op = Idle
    /\ prev' = Snapshot
    /\ dev' = o.chip
    /\ op' = Op(call, 0, arg)
    /\ reqs' = o.out
    /\ ret' = o.ret
    /\ panicked' = o.panic
    /\ UNCHANGED <<pic, overflow_checks, steps, pending>>

DevAssertIrq(irq) == DevCall(I8259A_assert_irq(dev, irq), "I8259A.assert_irq", irq)
DevAck(vec) == DevCall(I8259A_ack(dev, vec), "I8259A.ack", vec)
DevWriteCommand(cmd) == DevCall(I8259A_write_command(dev, cmd), "I8259A.write_command", cmd)
DevReadCommand == DevCall(I8259A_read_command(dev), "I8259A.read_command", 0)
DevReadData == DevCall(I8259A_read_data(dev), "I8259A.read_data", 0)
DevWriteData(data) == DevCall(I8259A_write_data(dev, data), "I8259A.write_data", data)

\* The call returns: its caller has consumed the result, and the next call can be made
Return ==
    /\ op # Idle
    /\ ~panicked
    /\ op' = Idle
    /\ prev' = Snapshot
    /\ reqs' = <<>>
    /\ ret' = NoRet
    /\ UNCHANGED <<dev, pic, panicked, overflow_checks, steps, pending>>

NextChip ==
    \/ \E irq \in ChipLines : DevAssertIrq(irq)
    \/ \E vec \in AckVectors(dev) : DevAck(vec)
    \/ \E cmd \in Commands : DevWriteCommand(cmd)
    \/ DevReadCommand
    \/ DevReadData
    \/ \E data \in DataBytes : DevWriteData(data)
    \/ Return

\* A single I8259A driven through its own methods, from construction
SpecChip == InitChip /\ [][NextChip]_vars

\* The PICs that one write to a port makes of the PICs of S
io_written(S, port, data8) ==
    { o.pic : o \in { x \in { PICDev_io_write(p, port, data8) : p \in S } : ~x.panic } }

\* The guest programs one chip: ICW1, offset, cascade word and mode word written
\* to its ports back to back, as init_common does
init_sequence(S, cmd_port, data_port, setup) ==
    IF setup = Untouched THEN S
    ELSE io_written(
             io_written(
                 io_written(
                     io_written(S, cmd_port, BitOr(ICW1_INIT, ICW1_ICW4)),
                     data_port, setup[1]),
                 data_port, setup[2]),
             data_port, ICW4_8086)

\* The PIC once the firmware has programmed the master and then the slave
Booted(ms, ss) ==
    init_sequence(init_sequence({ PIC_new }, PIC_MASTER_CMD, PIC_MASTER_DATA, ms),
                  PIC_SLAVE_CMD, PIC_SLAVE_DATA, ss)

\* PICDev when the guest starts: constructed by pic::init(), each chip then
\* programmed by the firmware or left untouched
Init ==
    /\ dev = I8259A_default
    /\ \E ms \in MasterSetups, ss \in SlaveSetups : pic \in Booted(ms, ss)
    /\ prev = [dev |-> dev, pic |-> pic]
    /\ op = Idle
    /\ reqs = <<>>
    /\ ret = NoRet
    /\ panicked = FALSE
    /\ overflow_checks \in BOOLEAN
    /\ steps = 0
    /\ pending = {}

\* One call into PICDev, which leaves vm::'s raised vectors as pend
PicCall(o, call, port, arg, pend) ==
    /\ op = Idle
    /\ steps < MaxSteps
    /\ steps' = steps + 1
    /\ prev' = Snapshot
    /\ pic' = o.pic
    /\ op' = Op(call, port, arg)
    /\ reqs' = o.out
    /\ ret' = o.ret
    /\ panicked' = o.panic
    /\ pending' = pend
    /\ UNCHANGED <<dev, overflow_checks>>

\* The chip behind a port
chip_at(port) == IF port \in { PIC_MASTER_CMD, PIC_MASTER_DATA } THEN "master" ELSE "slave"

\* n calls made by one chip
By(chip, n) == [k \in 1 .. n |-> chip]

\* The chips that make the vm:: calls of PIC.assert_irq: the master's come first
assert_irq_callers(p, irq) ==
    LET o == PIC_assert_irq(p, irq)
        m == I8259A_assert_irq(p.master, IF irq < 8 THEN irq ELSE slave_irq(p.master))
    IN By("master", Len(m.out)) \o By("slave", Len(o.out) - Len(m.out))

IoRead(port) == PicCall(PICDev_io_read(pic, port, 1), "PICDev.io_read", port, 0, pending)
IoWrite(port, data8) ==
    PicCall(PICDev_io_write(pic, port, data8), "PICDev.io_write", port, data8,
            LET out == PICDev_io_write(pic, port, data8).out
            IN vm_after(pending, out, By(chip_at(port), Len(out))))
AssertIrq(irq) ==
    PicCall(PICDev_assert_irq(pic, irq), "PICDev.assert_irq", 0, irq,
            vm_after(pending, PICDev_assert_irq(pic, irq).out, assert_irq_callers(pic, irq)))
Ack(vec) == PicCall(PICDev_ack(pic, vec), "PICDev.ack", 0, vec, vm_delivered(pending, vec))

Next ==
    \/ \E port \in Ports : IoRead(port)
    \/ \E port \in { PIC_MASTER_DATA, PIC_SLAVE_DATA }, data8 \in PicDataBytes : IoWrite(port, data8)
    \/ \E port \in { PIC_MASTER_CMD, PIC_SLAVE_CMD }, data8 \in PicCommands : IoWrite(port, data8)
    \/ \E irq \in PicLines : AssertIrq(irq)
    \/ \E vec \in PicAckVectors(pic) : Ack(vec)
    \/ Return

\* The device as the virtual machine drives it
Spec == Init /\ [][Next]_vars

\* The vectors vm:: has yet to deliver
Outstanding == { r.vector : r \in pending }

NextHost ==
    \/ \E port \in Ports : IoRead(port)
    \/ \E port \in { PIC_MASTER_DATA, PIC_SLAVE_DATA }, data8 \in PicDataBytes : IoWrite(port, data8)
    \/ \E port \in { PIC_MASTER_CMD, PIC_SLAVE_CMD }, data8 \in PicCommands : IoWrite(port, data8)
    \/ \E irq \in PicLines : AssertIrq(irq)
    \/ \E vec \in Outstanding : Ack(vec)
    \/ Return

\* The device with vm:: acknowledging only what it was asked to deliver
SpecHost == Init /\ [][NextHost]_vars

--------------------------------------------------------------------------
(* Vocabulary of the properties *)

\* The last call, on the stand-alone chip
Called(call) == op.call = call

\* The chip before and after the last call
old == prev.dev
new == dev

\* The registers a call leaves alone
SameBut(fields) ==
    \A f \in { "irr", "isr", "imr", "offset", "icw3", "next_icw", "cmd_latch" } \ fields :
        new[f] = old[f]

--------------------------------------------------------------------------
(* Properties of a single chip, checked under SpecChip *)

\* C1: on a Ready chip, assert_irq of an unmasked line leaves the line's bit set
\* in irr and issues exactly one injection request, for vector offset + line,
\* whether or not the bit was set before; no other register changes.
C1_AssertRequestsVector ==
    (Called("I8259A.assert_irq") /\ old.next_icw = 1 /\ BitAt(old.imr, op.arg) = 0)
        => /\ ~panicked
           /\ Bits(new.irr) = Bits(old.irr) \cup { op.arg }
           /\ reqs = << raise_external_interrupt(old.offset + op.arg) >>
           /\ SameBut({ "irr" })

\* C2: assert_irq of a masked line is a no-op in every init stage: no register
\* changes and no request is issued.
C2_MaskedAssertIsNoOp ==
    (Called("I8259A.assert_irq") /\ BitAt(old.imr, op.arg) = 1)
        => /\ ~panicked
           /\ new = old
           /\ reqs = << >>

\* C2's case: a masked line is asserted on a Ready chip
C2_Witness ==
    /\ Called("I8259A.assert_irq")
    /\ BitAt(old.imr, op.arg) = 1
    /\ old.next_icw = 1
    /\ old.irr # 0

\* C3: assert_irq on a chip that is not Ready changes no register and issues no
\* request, whatever the mask.
C3_NotReadyAssertIsNoOp ==
    (Called("I8259A.assert_irq") /\ old.next_icw # 1)
        => /\ ~panicked
           /\ new = old
           /\ reqs = << >>

\* C3's case: an unmasked line is asserted in the middle of a re-initialization
C3_Witness ==
    /\ Called("I8259A.assert_irq")
    /\ old.next_icw = 4
    /\ BitAt(old.imr, op.arg) = 0
    /\ BitAt(old.irr, op.arg) = 0
    /\ old.irr # 0

\* C4: ack of a vector at or above the offset whose line is pending moves exactly
\* that bit from irr to isr; nothing else changes and no request is issued.
C4_AckMovesBit ==
    (/\ Called("I8259A.ack")
     /\ op.arg >= old.offset
     /\ op.arg - old.offset < 8
     /\ BitAt(old.irr, op.arg - old.offset) = 1)
        => /\ ~panicked
           /\ Bits(new.irr) = Bits(old.irr) \ { op.arg - old.offset }
           /\ Bits(new.isr) = Bits(old.isr) \cup { op.arg - old.offset }
           /\ SameBut({ "irr", "isr" })
           /\ reqs = << >>

\* C4's case: line 1 is acknowledged while line 3 is both pending and in service
C4_Witness ==
    /\ Called("I8259A.ack")
    /\ ~panicked
    /\ Bits(old.irr) = { 1, 3 }
    /\ Bits(new.irr) = { 3 }
    /\ Bits(old.isr) = { 3 }
    /\ Bits(new.isr) = { 1, 3 }

\* The lowest line in service
LowestBit(x) == CHOOSE i \in Bits(x) : \A j \in Bits(x) : i <= j

\* C5: the end-of-interrupt command clears exactly the lowest set bit of isr, or
\* nothing when isr is empty, and changes no other register.
C5_EoiClearsLowest ==
    (Called("I8259A.write_command") /\ op.arg = PIC_EOI)
        => /\ ~panicked
           /\ Bits(new.isr) =
                 IF old.isr = 0 THEN {} ELSE Bits(old.isr) \ { LowestBit(old.isr) }
           /\ SameBut({ "isr" })
           /\ reqs = << >>

\* C5's case: lines 1 and 3 are in service and the command leaves line 3
C5_Witness ==
    /\ Called("I8259A.write_command")
    /\ op.arg = PIC_EOI
    /\ Bits(old.isr) = { 1, 3 }
    /\ Bits(new.isr) = { 3 }

\* C6: the initialization command moves the chip, from any stage, to
\* AwaitingOffset; the three data bytes that follow move it through
\* AwaitingCascadeWord and AwaitingMode to Ready, storing the offset and the
\* cascade word; the chip is initialized only after the mode byte, and a fresh
\* chip is not.
C6_InitSequence ==
    /\ (Called("I8259A.write_command") /\ op.arg = 17)
          => (new.next_icw = 2 /\ ~is_initialized(new))
    /\ (Called("I8259A.write_data") /\ old.next_icw = 2)
          => (new.next_icw = 3 /\ new.offset = op.arg /\ ~is_initialized(new))
    /\ (Called("I8259A.write_data") /\ old.next_icw = 3)
          => (/\ new.next_icw = 4 /\ new.icw3 = op.arg /\ new.offset = old.offset
              /\ ~is_initialized(new))
    /\ (Called("I8259A.write_data") /\ old.next_icw = 4 /\ op.arg = 1)
          => (/\ new.next_icw = 1 /\ new.icw3 = old.icw3 /\ new.offset = old.offset
              /\ is_initialized(new))
    /\ (new = I8259A_default) => ~is_initialized(new)

\* C6's case: the mode byte ends the re-initialization of a chip that was Ready
\* before (a line is still pending), with offset 0x08 and cascade word 0x02
C6_Witness ==
    /\ Called("I8259A.write_data")
    /\ op.arg = 1
    /\ old.next_icw = 4
    /\ old.irr # 0
    /\ new.next_icw = 1
    /\ new.offset = 8
    /\ new.icw3 = 2

\* The injection requests for the lines of irr, in ascending order, under an offset
RECURSIVE Requests(_, _, _)
Requests(irr, offset, i) ==
    IF i = 8 THEN << >>
    ELSE (IF BitAt(irr, i) = 1 THEN << raise_external_interrupt(offset + i) >> ELSE << >>)
         \o Requests(irr, offset, i + 1)

\* C7: re-initialization with lines pending: the initialization command requests
\* one cancellation if irr is non-empty and none otherwise; neither it nor the
\* offset and cascade bytes request an injection; the mode byte requests one
\* injection per bit set in irr, for vector offset + bit; irr is the same
\* throughout.
C7_ReinitReinjects ==
    /\ (Called("I8259A.write_command") /\ op.arg = 17)
          => (/\ reqs = IF old.irr # 0 THEN << cancel_all_external_interrupts >> ELSE << >>
              /\ new.irr = old.irr
              /\ ~panicked)
    /\ (Called("I8259A.write_data") /\ old.next_icw \in { 2, 3 })
          => (reqs = << >> /\ new.irr = old.irr /\ ~panicked)
    /\ (Called("I8259A.write_data") /\ old.next_icw = 4 /\ op.arg = 1)
          => (/\ reqs = Requests(old.irr, old.offset, 0)
              /\ new.irr = old.irr
              /\ ~panicked)

\* C8: outside the initialization sequence a data write becomes the mask, and a
\* data read returns the mask and changes nothing.
C8_MaskWriteReadBack ==
    /\ (Called("I8259A.write_data") /\ old.next_icw \in { 0, 1 })
          => (new.imr = op.arg /\ SameBut({ "imr" }) /\ reqs = << >> /\ ~panicked)
    /\ Called("I8259A.read_data")
          => (ret = old.imr /\ new = old /\ reqs = << >> /\ ~panicked)

\* C8's case: the chip was initialized with offset 0x08, cascade word 0x02 and
\* mode 0x01, the mask 0xAB was written, and the data port reads 0xAB
C8_Witness ==
    /\ Called("I8259A.read_data")
    /\ ret = 171
    /\ is_initialized(new)
    /\ new.offset = 8
    /\ new.icw3 = 2
    /\ new.irr = 0
    /\ new.isr = 0

\* C11: ack of a vector below the offset, of a vector eight or more above it, or
\* of a vector whose line is not pending in irr aborts the program and leaves irr
\* and isr as they were.
C11_AckViolationIsFatal ==
    (/\ Called("I8259A.ack")
     /\ \/ op.arg < old.offset
        \/ op.arg - old.offset >= 8
        \/ BitAt(old.irr, op.arg - old.offset) = 0)
        => /\ panicked
           /\ new.irr = old.irr
           /\ new.isr = old.isr

\* C13: a valid initialization command (0x10 or 0x11), in any state, sets imr to
\* 0 and the stage to AwaitingOffset and leaves irr, isr, offset, the cascade
\* line and the status latch as they were; it requests a cancellation exactly
\* when irr is non-empty, and never an injection.
C13_InitCommandFrame ==
    (Called("I8259A.write_command") /\ op.arg \in { ICW1_INIT, BitOr(ICW1_INIT, ICW1_ICW4) })
        => /\ ~panicked
           /\ new.imr = 0
           /\ new.next_icw = 2
           /\ SameBut({ "imr", "next_icw" })
           /\ reqs = IF old.irr # 0 THEN << cancel_all_external_interrupts >> ELSE << >>

\* C13's case: 0x10 is written to a Ready chip with lines pending, in service and
\* masked, a non-zero offset and a non-zero status latch
C13_Witness ==
    /\ Called("I8259A.write_command")
    /\ op.arg = ICW1_INIT
    /\ old.next_icw = 1
    /\ old.irr # 0
    /\ old.isr # 0
    /\ old.imr # 0
    /\ old.offset # 0
    /\ old.cmd_latch # 0
    /\ new.imr = 0
    /\ reqs = << cancel_all_external_interrupts >>

\* The command has the initialization bit and a bit other than 0x10 and 0x01
UnsupportedInit(cmd) ==
    /\ BitAt(cmd, 4) = 1
    /\ \E i \in { 1, 2, 3, 5, 6, 7 } : BitAt(cmd, i) = 1

\* C14: an initialization command with a bit other than 0x10 and 0x01 set, and a
\* mode word other than 0x01 written in AwaitingMode, abort the program with the
\* chip as it was (imr, the stage and every other register) and request neither a
\* cancellation nor an injection.
C14_ConfigViolationsFailFast ==
    /\ (Called("I8259A.write_command") /\ UnsupportedInit(op.arg))
          => (panicked /\ new = old /\ reqs = << >>)
    /\ (Called("I8259A.write_data") /\ old.next_icw = 4 /\ op.arg # ICW4_8086)
          => (panicked /\ new = old /\ new.next_icw = 4 /\ reqs = << >>)

\* C14's case: 0x13 is written as a command to a Ready chip with a line pending
\* and a line masked
C14_Witness ==
    /\ Called("I8259A.write_command")
    /\ UnsupportedInit(op.arg)
    /\ old.next_icw = 1
    /\ old.irr # 0
    /\ old.imr # 0
    /\ panicked

\* C15: a bit of irr is set only by assert_irq and cleared only by ack; a bit of
\* isr is set only by ack, which clears the same bit of irr, and cleared only by
\* the end-of-interrupt command; data writes, commands and port reads leave irr
\* as it was.
C15_BitsMoveOnlyByAssertAckEoi ==
    /\ \A i \in 0 .. (U8Bits - 1) :
          /\ (BitAt(old.irr, i) = 0 /\ BitAt(new.irr, i) = 1)
                => Called("I8259A.assert_irq")
          /\ (BitAt(old.irr, i) = 1 /\ BitAt(new.irr, i) = 0)
                => Called("I8259A.ack")
          /\ (BitAt(old.isr, i) = 0 /\ BitAt(new.isr, i) = 1)
                => (/\ Called("I8259A.ack")
                    /\ BitAt(old.irr, i) = 1
                    /\ BitAt(new.irr, i) = 0)
          /\ (BitAt(old.isr, i) = 1 /\ BitAt(new.isr, i) = 0)
                => (Called("I8259A.write_command") /\ op.arg = PIC_EOI)
    /\ (\/ Called("I8259A.write_data")
        \/ Called("I8259A.write_command")
        \/ Called("I8259A.read_data")
        \/ Called("I8259A.read_command"))
          => new.irr = old.irr

\* C15's case: the mask of line 3 is written to a Ready chip while line 3 is
\* pending
C15_Witness ==
    /\ Called("I8259A.write_data")
    /\ old.next_icw = 1
    /\ BitAt(old.irr, 3) = 1
    /\ BitAt(old.imr, 3) = 0
    /\ BitAt(new.imr, 3) = 1
    /\ BitAt(new.irr, 3) = 1

\* C16: the stage changes only by a valid initialization command, which moves
\* any stage to AwaitingOffset, and by write_data, which moves AwaitingOffset to
\* AwaitingCascadeWord, AwaitingCascadeWord to AwaitingMode and AwaitingMode to
\* Ready; every other call leaves it; NotInitialized is never entered.
C16_InitStageTransitions ==
    /\ (new.next_icw # old.next_icw)
          => \/ /\ Called("I8259A.write_command")
                /\ op.arg \in { ICW1_INIT, BitOr(ICW1_INIT, ICW1_ICW4) }
                /\ new.next_icw = 2
             \/ /\ Called("I8259A.write_data")
                /\ << old.next_icw, new.next_icw >> \in { << 2, 3 >>, << 3, 4 >>, << 4, 1 >> }
    /\ (Called("I8259A.write_command") /\ op.arg \in { ICW1_INIT, BitOr(ICW1_INIT, ICW1_ICW4) })
          => new.next_icw = 2
    /\ (Called("I8259A.write_data") /\ old.next_icw = 2) => new.next_icw = 3
    /\ (Called("I8259A.write_data") /\ old.next_icw = 3) => new.next_icw = 4
    /\ (Called("I8259A.write_data") /\ old.next_icw = 4 /\ op.arg = ICW4_8086)
          => new.next_icw = 1
    /\ (Called("I8259A.write_data") /\ old.next_icw \in { 0, 1 })
          => new.next_icw = old.next_icw
    /\ (new.next_icw = 0) => (old.next_icw = 0)

\* C16's case: the initialization command restarts a sequence that was waiting
\* for its cascade word
C16_Witness ==
    /\ Called("I8259A.write_command")
    /\ op.arg = ICW1_INIT
    /\ old.next_icw = 3
    /\ new.next_icw = 2
    /\ old.irr # 0

\* C20: every injection request of assert_irq and of the mode byte carries the
\* vector offset + line, which fits in a byte for every offset the guest can
\* program and every line 0..7: the addition neither wraps modulo 256 nor aborts
\* the call.
C20_VectorsDoNotOverflow ==
    /\ (Called("I8259A.assert_irq") /\ op.arg < 8)
          => /\ ~panicked
             /\ \A k \in 1 .. Len(reqs) : reqs[k].vector = old.offset + op.arg
    /\ (Called("I8259A.write_data") /\ old.next_icw = 4 /\ op.arg = ICW4_8086)
          => /\ ~panicked
             /\ { reqs[k].vector : k \in 1 .. Len(reqs) } = { old.offset + i : i \in Bits(old.irr) }

--------------------------------------------------------------------------
(* Properties of the cascade, checked under Spec *)

\* The chips of the PIC before the last call
old_master == prev.pic.master
old_slave == prev.pic.slave

\* C9: PIC.assert_irq of a line below 8 is master.assert_irq of the line and
\* leaves the slave alone; of a line 8..15 it is master.assert_irq of the
\* master's cascade line followed by slave.assert_irq of line - 8, so that with
\* both chips Ready and both lines unmasked the master's irr gets the cascade
\* bit, the slave's irr gets bit line - 8, and two injections are requested, for
\* master.offset + cascade line and slave.offset + line - 8.
C9_CascadeAssert ==
    Called("PICDev.assert_irq") =>
        LET m == I8259A_assert_irq(old_master,
                                   IF op.arg < 8 THEN op.arg ELSE old_master.icw3)
            s == I8259A_assert_irq(old_slave, op.arg - 8)
        IN /\ op.arg < 8 =>
                 /\ pic.master = m.chip
                 /\ pic.slave = old_slave
                 /\ reqs = m.out
                 /\ panicked = m.panic
           /\ (op.arg >= 8 /\ m.panic) =>
                 /\ pic.master = m.chip
                 /\ pic.slave = old_slave
                 /\ reqs = m.out
                 /\ panicked
           /\ (op.arg >= 8 /\ ~m.panic) =>
                 /\ pic.master = m.chip
                 /\ pic.slave = s.chip
                 /\ reqs = m.out \o s.out
                 /\ panicked = s.panic
           /\ (/\ op.arg >= 8
               /\ old_master.next_icw = 1
               /\ old_slave.next_icw = 1
               /\ old_master.icw3 < 8
               /\ BitAt(old_master.imr, old_master.icw3) = 0
               /\ BitAt(old_slave.imr, op.arg - 8) = 0) =>
                 /\ ~panicked
                 /\ Bits(pic.master.irr) = Bits(old_master.irr) \cup { old_master.icw3 }
                 /\ Bits(pic.slave.irr) = Bits(old_slave.irr) \cup { op.arg - 8 }
                 /\ reqs = << raise_external_interrupt(old_master.offset + old_master.icw3),
                              raise_external_interrupt(old_slave.offset + (op.arg - 8)) >>

\* C10: PIC.ack touches one chip: the slave, as slave.ack does, when the vector
\* is at or above the slave's stored offset, and the master, as master.ack does,
\* otherwise, whatever the init stage of either chip.
C10_AckRouting ==
    Called("PICDev.ack") =>
        /\ reqs = << >>
        /\ op.arg >= old_slave.offset =>
              /\ pic.master = old_master
              /\ pic.slave = I8259A_ack(old_slave, op.arg).chip
              /\ panicked = I8259A_ack(old_slave, op.arg).panic
        /\ op.arg < old_slave.offset =>
              /\ pic.slave = old_slave
              /\ pic.master = I8259A_ack(old_master, op.arg).chip
              /\ panicked = I8259A_ack(old_master, op.arg).panic

\* C10's case: a vector below the slave's offset is acknowledged by the master,
\* which moves the line to its isr, while the slave has a line pending
C10_Witness ==
    /\ Called("PICDev.ack")
    /\ ~panicked
    /\ op.arg < old_slave.offset
    /\ old_slave.irr # 0
    /\ pic.master.isr # 0
    /\ pic.master.irr # old_master.irr

\* The vectors a call computes fit in a byte: neither chip's offset is within
\* seven of the top of the vector range
NoVectorOverflow(p) == p.master.offset + 7 < U8Mod /\ p.slave.offset + 7 < U8Mod

\* C12: the cascade line the master stores is a line number 0..7 whatever byte
\* the guest wrote as the second initialization word, so that PIC.assert_irq of a
\* line 8..15 never aborts the program.
C12_CascadeLineIsValid ==
    /\ pic.master.icw3 \in 0 .. 7
    /\ (/\ Called("PICDev.assert_irq")
        /\ op.arg \in 8 .. 15
        /\ NoVectorOverflow(prev.pic))
          => ~panicked

--------------------------------------------------------------------------
(* Properties of the cascade and vm::, checked under SpecHost *)

\* C17: no pending interrupt is lost: every line pending in the irr of a Ready
\* chip has a vector, offset + line, that vm:: has been asked to deliver and has
\* not delivered yet, also after either chip is initialized again while the
\* other has lines pending. Stated for chips whose vectors do not overlap and
\* stay below 256.
C17_NoPendingInterruptLost ==
    (~panicked /\ NoVectorOverflow(pic) /\ pic.master.offset + 8 <= pic.slave.offset) =>
        \A c \in { pic.master, pic.slave } :
            is_initialized(c) => \A i \in Bits(c.irr) : (c.offset + i) \in Outstanding

\* C18: no stale request survives: whenever the master's vectors lie below the
\* slave's (master.offset + 8 <= slave.offset), every vector vm:: has yet to
\* deliver can be acknowledged: PIC.ack of it does not abort, and moves the line
\* vector - offset from irr to isr in the chip that raised it, under the chip's
\* present offset, leaving the other chip alone.
C18_NoStaleRequest ==
    (~panicked /\ pic.master.offset + 8 <= pic.slave.offset) =>
        \A r \in pending :
            LET o == PIC_ack(pic, r.vector)
                other == IF r.chip = "master" THEN "slave" ELSE "master"
                line == r.vector - pic[r.chip].offset
            IN /\ ~o.panic
               /\ line \in 0 .. 7
               /\ line \in Bits(pic[r.chip].irr)
               /\ Bits(o.pic[r.chip].irr) = Bits(pic[r.chip].irr) \ { line }
               /\ Bits(o.pic[r.chip].isr) = Bits(pic[r.chip].isr) \cup { line }
               /\ o.pic[other] = pic[other]

\* C19: with the master Ready and the slave never initialized, PIC.ack of the
\* vector of a line pending in the master does not abort and moves the line from
\* the master's irr to the master's isr.
C19_AckWithUntouchedSlave ==
    (/\ Called("PICDev.ack")
     /\ old_slave.next_icw = 0
     /\ is_initialized(old_master)
     /\ op.arg >= old_master.offset
     /\ (op.arg - old_master.offset) \in Bits(old_master.irr))
        => /\ ~panicked
           /\ Bits(pic.master.irr) = Bits(old_master.irr) \ { op.arg - old_master.offset }
           /\ Bits(pic.master.isr) = Bits(old_master.isr) \cup { op.arg - old_master.offset }

====
